---------------------------- MODULE Spec2Model ----------------------------
(***************************************************************************)
(* A model of the LeaderboardForensics farm-detection filter               *)
(* (Scripts/Filters/MainFilter.py): the username normalizer, the variant   *)
(* similarity engine, the seeded cluster builder, the score validator and  *)
(* the batch orchestrator.                                                 *)
(*                                                                         *)
(* Representation.                                                         *)
(*   - A Python str is a sequence of one-character strings.                *)
(*   - A JSON value that may or may not be a str is a record [t, s, n]:    *)
(*     t = "str" (s holds the characters), t = "null" (None) or t = "num"  *)
(*     (n holds the number).                                               *)
(*   - A float that the code obtains as a quotient of integers is a pair   *)
(*     <<numerator, denominator>> with denominator > 0, compared by cross  *)
(*     multiplication.  For the bounded inputs of this model two such      *)
(*     quotients are equal as IEEE doubles exactly when they are equal as  *)
(*     rationals, and an order comparison of two of them gives the same    *)
(*     answer in both.                                                     *)
(*   - A score is an integer count of 1/ScoreDen units.                    *)
(***************************************************************************)
EXTENDS Integers, Sequences, FiniteSets, TLC

(***************************************************************************)
(* Generic sequence helpers.  An operator takes an intermediate result as  *)
(* a parameter where the code binds it to a local variable, so that each   *)
(* result is written once.                                                 *)
(***************************************************************************)
RECURSIVE Concat(_)
Concat(ss) == IF ss = <<>> THEN <<>> ELSE Head(ss) \o Concat(Tail(ss))

Range(s) == {s[i] : i \in 1..Len(s)}

\* the elements of s that are in C, and those that are not, in order
Keep(s, C) == Concat([i \in 1..Len(s) |-> IF s[i] \in C THEN <<s[i]>> ELSE <<>>])
Drop(s, C) == Concat([i \in 1..Len(s) |-> IF s[i] \in C THEN <<>> ELSE <<s[i]>>])

RECURSIVE SeqsUpTo(_, _)
SeqsUpTo(S, n) ==
    IF n = 0 THEN {<<>>}
    ELSE LET shorter == SeqsUpTo(S, n - 1)
         IN  shorter \cup {Append(s, c) : s \in {t \in shorter : Len(t) = n - 1}, c \in S}

Abs(x) == IF x < 0 THEN -x ELSE x
Max(x, y) == IF x >= y THEN x ELSE y

(***************************************************************************)
(* Rationals <<n, d>>, d > 0                                               *)
(***************************************************************************)
RatEq(x, y)  == x[1] * y[2] = y[1] * x[2]
RatGt(x, y)  == x[1] * y[2] > y[1] * x[2]
RatGeq(x, y) == x[1] * y[2] >= y[1] * x[2]
RatAdd(x, y) == <<x[1] * y[2] + y[1] * x[2], x[2] * y[2]>>
Zero == <<0, 1>>
One  == <<1, 1>>

(***************************************************************************)
(* Configuration (MainFilter.py lines 19-32)                               *)
(***************************************************************************)
MIN_GROUP_SIZE == 3
NAME_SIMILARITY_THRESHOLD == <<70, 100>>
SCORE_TOLERANCE_RATIO == <<30, 100>>
MAX_FILENAME_LEN == 64

LeetKeys == {"4", "@", "8", "3", "6", "9", "1", "!", "0", "5", "$", "7", "+", "2"}
LEET_SUBS ==
    [k \in LeetKeys |->
        CASE k \in {"4", "@"} -> "a"
          [] k = "8" -> "b"
          [] k = "3" -> "e"
          [] k \in {"6", "9"} -> "g"
          [] k = "1" -> "l"
          [] k = "!" -> "i"
          [] k = "0" -> "o"
          [] k \in {"5", "$"} -> "s"
          [] k \in {"7", "+"} -> "t"
          [] k = "2" -> "z"]

HomoglyphKeys == {"U+0E3F", "U+20AC", "U+00A3", "U+20A9", "U+00A5", "U+00A9", "U+00AE"}
HOMOGLYPHS ==
    [k \in HomoglyphKeys |->
        CASE k = "U+0E3F" -> "b"
          [] k = "U+20AC" -> "e"
          [] k = "U+00A3" -> "l"
          [] k = "U+20A9" -> "w"
          [] k = "U+00A5" -> "y"
          [] k = "U+00A9" -> "c"
          [] k = "U+00AE" -> "r"]

(***************************************************************************)
(* Character classes.  A character outside ASCII is written by its code   *)
(* point: "U+00E9" is e-acute, "U+00DF" sharp s, "U+20AC" the euro sign,   *)
(* "U+00A9" copyright, "U+00A3" pound, "U+0E3F" baht, "U+20A9" won,        *)
(* "U+00A5" yen, "U+00AE" registered.                                      *)
(***************************************************************************)
UpperSeq == <<"A", "B", "C", "D", "E", "F", "G", "H", "I", "J", "K", "L", "M",
              "N", "O", "P", "Q", "R", "S", "T", "U", "V", "W", "X", "Y", "Z">>
LowerSeq == <<"a", "b", "c", "d", "e", "f", "g", "h", "i", "j", "k", "l", "m",
              "n", "o", "p", "q", "r", "s", "t", "u", "v", "w", "x", "y", "z">>
UpperLetters == Range(UpperSeq)
LowerLetters == Range(LowerSeq)
Digits       == {"0", "1", "2", "3", "4", "5", "6", "7", "8", "9"}
Whitespace   == {" ", "\t"}
\* the punctuation the regex classes of normalize_name_variants name
SepPunct     == {"-", "_", ".", "@", "!", "$", "+"}
\* ASCII punctuation that no class retains
OtherAscii   == {"*", "(", ")", "=", "#"}
AsciiChars   == UpperLetters \cup LowerLetters \cup Digits \cup Whitespace
                  \cup SepPunct \cup OtherAscii

\* str.lower() on one character
LowerChar(c) ==
    IF c \in UpperLetters
    THEN LowerSeq[CHOOSE i \in 1..Len(UpperSeq) : UpperSeq[i] = c]
    ELSE c

(***************************************************************************)
(* unidecode(): ASCII text is returned unchanged; every other character is *)
(* replaced by the ASCII string of the transliteration table.              *)
(***************************************************************************)
UnidecodeKeys == {"U+00E9", "U+00DF", "U+20AC", "U+00A9", "U+00A3"}
UnidecodeTable ==
    [k \in UnidecodeKeys |->
        CASE k = "U+00E9" -> <<"e">>
          [] k = "U+00DF" -> <<"s", "s">>
          [] k = "U+20AC" -> <<"E", "U", "R">>
          [] k = "U+00A9" -> <<"(", "c", ")">>
          [] k = "U+00A3" -> <<"P", "S">>]

unidecode(s) ==
    Concat([i \in 1..Len(s) |->
              IF s[i] \in UnidecodeKeys THEN UnidecodeTable[s[i]] ELSE <<s[i]>>])

(***************************************************************************)
(* JSON values                                                             *)
(***************************************************************************)
Str(s)  == [t |-> "str",  s |-> s,    n |-> 0]
Null    == [t |-> "null", s |-> <<>>, n |-> 0]
Num(n)  == [t |-> "num",  s |-> <<>>, n |-> n]
\* Python truthiness of a value
Truthy(v) == CASE v.t = "str"  -> v.s # <<>>
               [] v.t = "null" -> FALSE
               [] v.t = "num"  -> v.n # 0

(***************************************************************************)
(* Normalizer (MainFilter.py lines 57-116)                                 *)
(***************************************************************************)
\* re.sub(r'(.)\1{2,}', r'\1\1', s): a run of three or more equal characters
\* becomes two of them.  RunBefore(s, i) is the length of the run of s[i]
\* that ends at position i.
RECURSIVE RunBefore(_, _)
RunBefore(s, i) ==
    IF i > 1 /\ s[i - 1] = s[i] THEN 1 + RunBefore(s, i - 1) ELSE 1

collapse_repeats(s) ==
    Concat([i \in 1..Len(s) |-> IF RunBefore(s, i) <= 2 THEN <<s[i]>> ELSE <<>>])

\* re.sub(r'[\s\-_\.]+', '', s)
remove_separators(s) == Drop(s, Whitespace \cup {"-", "_", "."})

\* every key of HOMOGLYPHS replaced by its value, one key after the other; no
\* value is a key, so the order of the replacements does not matter
replace_homoglyphs(s) ==
    [i \in 1..Len(s) |-> IF s[i] \in HomoglyphKeys THEN HOMOGLYPHS[s[i]] ELSE s[i]]

de_leet(s) ==
    [i \in 1..Len(s) |->
        LET low == LowerChar(s[i])
        IN  IF low \in LeetKeys THEN LEET_SUBS[low] ELSE low]

\* str.lower()
lower(s) == [i \in 1..Len(s) |-> LowerChar(s[i])]

\* str.strip(): leading and trailing whitespace removed
RECURSIVE lstrip(_)
lstrip(s) == IF s # <<>> /\ Head(s) \in Whitespace THEN lstrip(Tail(s)) ELSE s
RECURSIVE rstrip(_)
rstrip(s) ==
    IF s # <<>> /\ s[Len(s)] \in Whitespace
    THEN rstrip(SubSeq(s, 1, Len(s) - 1)) ELSE s
strip(s) == rstrip(lstrip(s))

\* re.sub(r'[C]+', ' ', s) for a character class C: every maximal run of
\* characters of C becomes one space
SubRunsBySpace(s, C) ==
    LET marked == [i \in 1..Len(s) |->
                     IF s[i] \notin C THEN <<s[i]>>
                     ELSE IF i > 1 /\ s[i - 1] \in C THEN <<>>
                     ELSE <<" ">>]
    IN  Concat(marked)

\* lambda s: re.sub(r'\d+', '', s)
stripped_numbers(s) == Drop(s, Digits)

\* the class [a-z0-9\s\-_\.@!$+] of line 82 and the class [\s\-_\.@!$+] of line 84
KeptClass == LowerLetters \cup Digits \cup Whitespace \cup SepPunct
SepClass  == Whitespace \cup SepPunct

\* lines 111-114: first occurrences, in order
RECURSIVE UniqFrom(_, _)
UniqFrom(uniq, rest) ==
    IF rest = <<>> THEN uniq
    ELSE UniqFrom(IF \E i \in 1..Len(uniq) : uniq[i] = Head(rest)
                  THEN uniq ELSE Append(uniq, Head(rest)),
                  Tail(rest))

\* line 115: re.sub(r'[^a-z0-9]+', '', u)
AlnumOnly(u) == Keep(u, LowerLetters \cup Digits)

\* lines 79-83: transliterated, lowercased, restricted to the kept class
BaseOf(raw) ==
    strip(Keep(lower(replace_homoglyphs(unidecode(raw))), KeptClass))

\* lines 84-85
V1Of(base) ==
    SubRunsBySpace(strip(SubRunsBySpace(base, SepClass)), Whitespace)

\* lines 88-110 with leet = LEET_MODE = True: the twelve variants in order
VariantList(v1, v2, v3) ==
    << v1, v2, v3, de_leet(v1), de_leet(v2), de_leet(v3),
       stripped_numbers(v1), stripped_numbers(v2), stripped_numbers(v3),
       stripped_numbers(de_leet(v1)), stripped_numbers(de_leet(v2)),
       stripped_numbers(de_leet(v3)) >>

\* lines 86-87
VariantsFromV2(v1, v2) == VariantList(v1, v2, remove_separators(v2))
VariantsFromV1(v1) == VariantsFromV2(v1, collapse_repeats(v1))

\* a cleaning that keeps the variants it has emptied
CleanedKeepEmpty(uniq) == [i \in 1..Len(uniq) |-> AlnumOnly(uniq[i])]

\* lines 115-116
CleanedOf(uniq) == Drop([i \in 1..Len(uniq) |-> AlnumOnly(uniq[i])], {<<>>})

\* the list of variants of a str (lines 79-116)
VariantsOfStr(raw) ==
    CleanedOf(UniqFrom(<<>>, VariantsFromV1(V1Of(BaseOf(raw)))))

\* normalize_name_variants(raw) for any JSON value: [raised, vars].  `raw or ""`
\* replaces a falsy value by the empty str; unidecode() of a value that is not
\* a str raises (it calls the value's encode method).
normalize_name_variants(raw) ==
    IF Truthy(raw) /\ raw.t # "str" THEN [raised |-> TRUE, vars |-> <<>>]
    ELSE [raised |-> FALSE,
          vars |-> VariantsOfStr(IF Truthy(raw) THEN raw.s ELSE <<>>)]

(***************************************************************************)
(* max_variant_similarity is a pure function.  Its values for the names of *)
(* the accounts of a corpus are computed once, when the corpus is chosen,  *)
(* and kept in sim_cache: a function from pairs of names to results.       *)
(***************************************************************************)
VARIABLE sim_cache

(***************************************************************************)
(* Similarity engine (MainFilter.py lines 118-145).                        *)
(* difflib.SequenceMatcher(None, a, b) with no junk; the automatic junk    *)
(* heuristic applies only to a second string of 200 characters or more,    *)
(* beyond the names of this model.  Indices are Python's: 0-based, ranges  *)
(* half-open, a[i] of the code is a[i + 1] here.                           *)
(***************************************************************************)
\* length of the longest common run of a[i:ahi] and b[j:bhi] starting at i, j
RECURSIVE MatchLen(_, _, _, _, _, _)
MatchLen(a, b, i, j, ahi, bhi) ==
    IF i < ahi /\ j < bhi /\ a[i + 1] = b[j + 1]
    THEN 1 + MatchLen(a, b, i + 1, j + 1, ahi, bhi)
    ELSE 0

\* of the matching blocks <<i, j, k>>: the longest; of all longest, the one
\* that starts earliest in a, and of those the one that starts earliest in b
LongestOf(blocks, alo, blo) ==
    IF blocks = {} THEN <<alo, blo, 0>>
    ELSE CHOOSE c \in blocks :
            \A o \in blocks :
                \/ c[3] > o[3]
                \/ c[3] = o[3] /\ c[1] < o[1]
                \/ c[3] = o[3] /\ c[1] = o[1] /\ c[2] <= o[2]

\* SequenceMatcher.find_longest_match(alo, ahi, blo, bhi): <<i, j, k>>, or
\* <<alo, blo, 0>> when nothing matches
find_longest_match(a, b, alo, ahi, blo, bhi) ==
    LongestOf({c \in {<<i, j, MatchLen(a, b, i, j, ahi, bhi)>> :
                         i \in alo..(ahi - 1), j \in blo..(bhi - 1)} : c[3] > 0},
              alo, blo)

\* SequenceMatcher.get_matching_blocks(), summed: the longest block m, then
\* the same to its left and to its right
RECURSIVE MatchedChars(_, _, _, _, _, _)
RECURSIVE MatchedAround(_, _, _, _, _, _, _)
MatchedAround(a, b, alo, ahi, blo, bhi, m) ==
    IF m[3] = 0 THEN 0
    ELSE m[3]
           + (IF alo < m[1] /\ blo < m[2]
              THEN MatchedChars(a, b, alo, m[1], blo, m[2]) ELSE 0)
           + (IF m[1] + m[3] < ahi /\ m[2] + m[3] < bhi
              THEN MatchedChars(a, b, m[1] + m[3], ahi, m[2] + m[3], bhi) ELSE 0)
MatchedChars(a, b, alo, ahi, blo, bhi) ==
    MatchedAround(a, b, alo, ahi, blo, bhi,
                  find_longest_match(a, b, alo, ahi, blo, bhi))

\* a ratio that counts the matched characters once instead of twice
ratioHalf(a, b) ==
    IF Len(a) + Len(b) = 0 THEN One
    ELSE <<MatchedChars(a, b, 0, Len(a), 0, Len(b)), Len(a) + Len(b)>>

\* SequenceMatcher.ratio(): 2.0 * matches / (len(a) + len(b))
ratio(a, b) ==
    IF Len(a) + Len(b) = 0 THEN One
    ELSE <<2 * MatchedChars(a, b, 0, Len(a), 0, Len(b)), Len(a) + Len(b)>>

name_similarity(a, b) ==
    IF a = <<>> \/ b = <<>> THEN Zero ELSE ratio(a, b)

\* the two loops of max_variant_similarity from the k-th pair of the cross
\* product on (row-major), with the early return at 0.999
RECURSIVE BestFrom(_, _, _, _)
RECURSIVE BestStep(_, _, _, _, _)
BestStep(a_vars, b_vars, k, best, sim) ==
    IF RatGt(sim, best)
    THEN IF RatGeq(sim, <<999, 1000>>) THEN sim
         ELSE BestFrom(a_vars, b_vars, k + 1, sim)
    ELSE BestFrom(a_vars, b_vars, k + 1, best)
BestFrom(a_vars, b_vars, k, best) ==
    IF k >= Len(a_vars) * Len(b_vars) THEN best
    ELSE BestStep(a_vars, b_vars, k, best,
                  name_similarity(a_vars[(k \div Len(b_vars)) + 1],
                                  b_vars[(k % Len(b_vars)) + 1]))

\* lines 126-134 on the two variant lists
MaxOverVariants(a_norm, b_norm) ==
    IF a_norm.raised \/ b_norm.raised THEN [raised |-> TRUE, sim |-> Zero]
    ELSE [raised |-> FALSE, sim |-> BestFrom(a_norm.vars, b_norm.vars, 0, Zero)]

\* max_variant_similarity(a_raw, b_raw): [raised, sim]
max_variant_similarity(a_raw, b_raw) ==
    MaxOverVariants(normalize_name_variants(a_raw), normalize_name_variants(b_raw))

(***************************************************************************)
(* Score validator (MainFilter.py lines 147-164).  Scores count units of   *)
(* 1/ScoreDen; a median is kept doubled, in units of 1/(2*ScoreDen).       *)
(***************************************************************************)
ScoreDen == 4

\* sorted(vals)
RECURSIVE Insert(_, _)
Insert(sorted, v) ==
    IF sorted = <<>> THEN <<v>>
    ELSE IF v <= Head(sorted) THEN <<v>> \o sorted
    ELSE <<Head(sorted)>> \o Insert(Tail(sorted), v)
RECURSIVE Sorted(_)
Sorted(vals) == IF vals = <<>> THEN <<>> ELSE Insert(Sorted(Tail(vals)), Head(vals))

\* 2 * statistics.median(vals), vals non-empty
MedianOfSorted2(sorted) ==
    IF Len(sorted) % 2 = 1 THEN 2 * sorted[(Len(sorted) \div 2) + 1]
    ELSE sorted[Len(sorted) \div 2] + sorted[(Len(sorted) \div 2) + 1]
median2(vals) == MedianOfSorted2(Sorted(vals))

\* abs(v) <= tolerance_ratio
WithinTolOfZero(v, tolerance_ratio) ==
    Abs(v) * tolerance_ratio[2] <= tolerance_ratio[1] * ScoreDen

\* a deviation relative to abs(med) alone, without the floor of 1.0
DeviatesNoFloor(v, med2, tolerance_ratio) ==
    Abs(2 * v - med2) * tolerance_ratio[2] > tolerance_ratio[1] * Abs(med2)

\* an absolute deviation, not relative to the median
DeviatesAbsolute(v, med2, tolerance_ratio) ==
    Abs(2 * v - med2) * tolerance_ratio[2] > tolerance_ratio[1] * 2 * ScoreDen

\* abs(v - med) / max(abs(med), 1.0) > tolerance_ratio
DeviatesFromMedian(v, med2, tolerance_ratio) ==
    Abs(2 * v - med2) * tolerance_ratio[2]
        > tolerance_ratio[1] * Max(Abs(med2), 2 * ScoreDen)

\* lines 159-164
ConsistentAround(vals, med2, tolerance_ratio) ==
    IF med2 = 0
    THEN \A i \in 1..Len(vals) : WithinTolOfZero(vals[i], tolerance_ratio)
    ELSE ~ \E i \in 1..Len(vals) : DeviatesFromMedian(vals[i], med2, tolerance_ratio)

scores_consistent(vals, tolerance_ratio) ==
    IF Len(vals) < 2 THEN FALSE
    ELSE ConsistentAround(vals, median2(vals), tolerance_ratio)

\* float(str) of a str of decimal digits, in units of 1/ScoreDen
DigitValue(c) == CHOOSE d \in 0..9 : <<"0","1","2","3","4","5","6","7","8","9">>[d + 1] = c
RECURSIVE DecimalValue(_, _)
DecimalValue(s, acc) ==
    IF s = <<>> THEN acc ELSE DecimalValue(Tail(s), 10 * acc + DigitValue(Head(s)))

\* a coercion that reads a missing or non-numeric score as 0
numeric_score_zero(val) ==
    IF val.t = "num" THEN [ok |-> TRUE, v |-> val.n]
    ELSE IF val.t = "str" /\ val.s # <<>> /\ Range(val.s) \subseteq Digits
         THEN [ok |-> TRUE, v |-> DecimalValue(val.s, 0) * ScoreDen]
         ELSE [ok |-> TRUE, v |-> 0]

\* numeric_score(val): [ok, v]; a number is taken as it is, a str of decimal
\* digits is parsed, and None (a missing or null score), the empty str and a
\* str with a character float() does not accept have no float
numeric_score(val) ==
    IF val.t = "num" THEN [ok |-> TRUE, v |-> val.n]
    ELSE IF val.t = "str" /\ val.s # <<>> /\ Range(val.s) \subseteq Digits
         THEN [ok |-> TRUE, v |-> DecimalValue(val.s, 0) * ScoreDen]
         ELSE [ok |-> FALSE, v |-> 0]

(***************************************************************************)
(* sanitize_filename (MainFilter.py lines 166-168)                         *)
(***************************************************************************)
FilenameClass == UpperLetters \cup LowerLetters \cup Digits \cup {"_", "-"}

RECURSIVE StripUnderscores(_)
StripUnderscores(s) ==
    IF s # <<>> /\ Head(s) = "_" THEN StripUnderscores(Tail(s))
    ELSE IF s # <<>> /\ s[Len(s)] = "_" THEN StripUnderscores(SubSeq(s, 1, Len(s) - 1))
    ELSE s

\* [:maxlen]
Truncate(s, maxlen) == SubSeq(s, 1, IF Len(s) < maxlen THEN Len(s) ELSE maxlen)
OrGroup(s2) == IF s2 = <<>> THEN <<"g", "r", "o", "u", "p">> ELSE s2

sanitize_filename(s) ==
    OrGroup(StripUnderscores(Truncate(
        [i \in 1..Len(s) |-> IF s[i] \in FilenameClass THEN s[i] ELSE "_"],
        MAX_FILENAME_LEN)))

(***************************************************************************)
(* The data of the model: account records and batches                      *)
(***************************************************************************)
MaxAccounts == 5
MaxCorpus   == 3

\* the top-level fields of a record other than latest and score: a function
\* from field names to JSON values
NoExtra == <<>>

\* one item of the data object: the id, latest.username (Null when the record
\* has no latest or latest has no username), score (Null when there is none)
\* and the other top-level fields
AcctWith(uid, username, score, extra) ==
    [uid |-> uid, username |-> username, score |-> score, extra |-> extra]
Acct(uid, username, score) == AcctWith(uid, username, score, NoExtra)
Pts(n) == Num(n * ScoreDen)

GoldFamily ==
    { Acct("g1", Str(<<"G","o","l","d","F","a","r","m","e","r","1">>), Pts(500)),
      Acct("g2", Str(<<"G","o","l","d","F","a","r","m","e","r","2">>), Pts(520)),
      Acct("g3", Str(<<"G","o","l","d","F","a","r","m","e","r","3">>), Pts(510)),
      Acct("x1", Str(<<"A","l","e","x">>), Pts(10)),
      Acct("x2", Str(<<"J","a","m","i","e">>), Pts(9999)) }

PairsFamily ==
    { Acct("a", Str(<<"a","b","1">>), Pts(100)),
      Acct("b", Str(<<"a","b","2">>), Str(<<"1","1","0">>)),
      Acct("c", Str(<<"c","d","1">>), Pts(50)),
      Acct("d", Str(<<"c","d","2">>), Pts(50)),
      Acct("e", Str(<<"a","b","3">>), Pts(1000)),
      Acct("f", Str(<<"c","d","3">>), Pts(60)) }

RoundFamily ==
    { Acct("r1", Str(<<"a","a","c","a","a","a","c">>), Pts(100)),
      Acct("r2", Str(<<"a","a","a","a">>), Pts(100)),
      Acct("r3", Str(<<"a","c","a","c","c">>), Pts(100)) }

LooseFamily ==
    { Acct("l1", Str(<<"a","a","a","b">>), Pts(7)),
      Acct("l2", Str(<<"a","b">>), Pts(7)),
      Acct("l3", Str(<<"b","a","a","a">>), Pts(7)) }

OddFamily ==
    { Acct("o1", Num(7), Pts(5)),
      Acct("o2", Null, Null),
      Acct("o3", Str(<<"b","o","t","1">>), Pts(5)),
      Acct("o4", Str(<<"b","o","t","2">>), Null),
      Acct("o5", Str(<<"b","o","t","3">>), Pts(5)) }

\* similar names, one numeric score, one score that is no number, one missing
GapFamily ==
    { Acct("k1", Str(<<"z","e","d","1">>), Pts(5)),
      Acct("k2", Str(<<"z","e","d","2">>), Str(<<"n","/","a">>)),
      Acct("k3", Str(<<"z","e","d","3">>), Null) }

\* similar names, records with top-level fields besides latest and score
PassFamily ==
    { AcctWith("p1", Str(<<"p","a","t","1">>), Pts(5),
               [k \in {"rank"} |-> Num(1)]),
      AcctWith("p2", Str(<<"p","a","t","2">>), Pts(5),
               [k \in {"username"} |-> Str(<<"z","z","z">>)]),
      AcctWith("p3", Str(<<"p","a","t","3">>), Pts(5),
               [k \in {"user_id"} |-> "p9"]) }

Families ==
    {GoldFamily, PairsFamily, RoundFamily, LooseFamily, OddFamily, GapFamily,
     PassFamily}

\* the sequences without repetition over S of length at most n
RECURSIVE InjectiveSeqs(_, _)
InjectiveSeqs(S, n) ==
    IF n = 0 THEN {<<>>}
    ELSE LET shorter == InjectiveSeqs(S, n - 1)
         IN  shorter \cup
             UNION {{Append(s, c) : c \in S \ Range(s)} :
                       s \in {t \in shorter : Len(t) = n - 1}}

\* the orders in which a set can be iterated
Orderings(S) == {s \in InjectiveSeqs(S, Cardinality(S)) : Len(s) = Cardinality(S)}

\* the well-formed data.json files over the accounts of F: an object of at
\* most MaxAccounts records, in the order of the file
DataFiles(F) == InjectiveSeqs(F, MaxAccounts)

\* a batch directory whose data.json is an object of records
BatchDir(name, users) == [name |-> name, kind |-> "object", data |-> users]

\* a batch directory without such a data.json: there is no data.json
\* ("missing"), it cannot be opened or is no JSON document ("unreadable"), or
\* it is a JSON document that is an array ("array")
BadKinds == {"missing", "unreadable", "array"}
BadBatch(name, kind) == [name |-> name, kind |-> kind, data |-> <<>>]

\* data/www over the data.json files `files`: one batch directory, or two
\* small ones, or a directory without a usable data.json before a small one,
\* or two directories with the same small data.json whose names differ in a
\* trailing underscore; the names are in the order sorted() gives
Corpora(files) ==
    {<<BatchDir(<<"b","1">>, d)>> : d \in files}
      \cup UNION {{<<BatchDir(<<"b","1">>, d1), BatchDir(<<"b","2">>, d2)>> :
                      d2 \in {d \in files : Len(d) <= MaxCorpus - Len(d1)}} :
                   d1 \in {d \in files : Len(d) <= MaxCorpus}}
      \cup UNION {{<<BadBatch(<<"b","1">>, k), BatchDir(<<"b","2">>, d)>> :
                      d \in {e \in files : Len(e) <= MaxCorpus}} :
                   k \in BadKinds}
      \cup {<<BatchDir(<<"b","1">>, d), BatchDir(<<"b","1","_">>, d)>> :
                d \in {e \in files : Len(e) <= MaxCorpus}}

\* a default name given to an account that has no username
EffNameDefault(v) == IF Truthy(v) THEN v ELSE Str(<<"b", "o", "t">>)

\* `udata.get("latest", {}).get("username") or ""`
EffName(v) == IF Truthy(v) THEN v ELSE Str(<<>>)

\* max_variant_similarity(a_raw, b_raw), looked up when it is in the cache
Similarity(a_raw, b_raw) ==
    IF <<a_raw, b_raw>> \in DOMAIN sim_cache THEN sim_cache[<<a_raw, b_raw>>]
    ELSE max_variant_similarity(a_raw, b_raw)

SimTable(F) ==
    LET names == {EffName(a.username) : a \in F}
    IN  [pair \in names \X names |-> max_variant_similarity(pair[1], pair[2])]

RECURSIVE GCD(_, _)
GCD(x, y) == IF y = 0 THEN x ELSE GCD(y, x % y)
ReduceBy(x, g) == IF g = 0 THEN x ELSE <<x[1] \div g, x[2] \div g>>
Reduce(x) == ReduceBy(x, GCD(x[1], x[2]))

\* the index pairs i < j of pairwise_avg_similarity, in loop order
IndexPairs(n) ==
    Concat([i \in 1..n |-> [d \in 1..(n - i) |-> <<i, i + d>>]])

RECURSIVE SumSims(_, _, _)
SumSims(names, pairs, total) ==
    IF pairs = <<>> THEN total
    ELSE SumSims(names, Tail(pairs),
                 Reduce(RatAdd(total,
                               Similarity(names[Head(pairs)[1]],
                                          names[Head(pairs)[2]]).sim)))

\* total / pairs
AvgOf(total, pairs) == Reduce(<<total[1], total[2] * pairs>>)

\* pairwise_avg_similarity(names)
pairwise_avg_similarity(names) ==
    IF Len(names) < 2 THEN Zero
    ELSE AvgOf(SumSims(names, IndexPairs(Len(names)), Zero),
               (Len(names) * (Len(names) - 1)) \div 2)

\* round(x, 3) in thousandths: the nearest multiple of 0.001
Round3(x) == (2000 * x[1] + x[2]) \div (2 * x[2])

(***************************************************************************)
(* Group payload (MainFilter.py lines 193-218)                             *)
(***************************************************************************)
\* users.get(uid): the record of an id of the batch
UserOf(users, uid) == users[CHOOSE i \in 1..Len(users) : users[i].uid = uid]

NoMedian == [some |-> FALSE, med2 |-> 0]

\* line 206: acct.update(...) with the fields of the record other than latest
\* and score; a field named user_id or username replaces the entry's own
Updated(acct, extra) ==
    [acct EXCEPT
       !.user_id  = IF "user_id" \in DOMAIN extra THEN extra["user_id"] ELSE @,
       !.username = IF "username" \in DOMAIN extra THEN extra["username"] ELSE @,
       !.extra    = extra]

\* lines 201-206 for one record u
AccountOf(uid, u) ==
    Updated([user_id  |-> uid,
             username |-> EffName(u.username),
             score    |-> numeric_score(u.score),
             extra    |-> NoExtra], u.extra)

\* a payload that lists only the accounts that have a numeric score
AccountsScored(group_uids, users) ==
    Concat([i \in 1..Len(group_uids) |->
              IF numeric_score(UserOf(users, group_uids[i]).score).ok
              THEN <<AccountOf(group_uids[i], UserOf(users, group_uids[i]))>>
              ELSE <<>>])

\* lines 197-207: the account entries of the group
AccountsOf(group_uids, users) ==
    [i \in 1..Len(group_uids) |-> AccountOf(group_uids[i], UserOf(users, group_uids[i]))]

\* lines 199-200: names, the latest usernames of the group
NamesOf(group_uids, users) ==
    [i \in 1..Len(group_uids) |-> EffName(UserOf(users, group_uids[i]).username)]

\* the scores list: the scores of the accounts that have one
ScoresOf(accounts) ==
    Concat([i \in 1..Len(accounts) |->
              IF accounts[i].score.ok THEN <<accounts[i].score.v>> ELSE <<>>])

\* lines 208-218
PayloadOf(accounts, names, scores) ==
    [usernames           |-> [i \in 1..Len(accounts) |-> accounts[i].username],
     count               |-> Len(accounts),
     avg_name_similarity |-> Round3(pairwise_avg_similarity(names)),
     median_score        |-> IF scores # <<>>
                             THEN [some |-> TRUE, med2 |-> median2(scores)]
                             ELSE NoMedian,
     score_consistent    |-> IF scores # <<>>
                             THEN scores_consistent(scores, SCORE_TOLERANCE_RATIO)
                             ELSE FALSE,
     accounts            |-> accounts]

PayloadOfAccounts(accounts, names) ==
    PayloadOf(accounts, names, ScoresOf(accounts))

build_group_payload(group_uids, users) ==
    PayloadOfAccounts(AccountsOf(group_uids, users), NamesOf(group_uids, users))

\* payload["avg_name_similarity"] < NAME_SIMILARITY_THRESHOLD, the payload's
\* value being in thousandths
BelowNameThreshold(payload) ==
    RatGt(NAME_SIMILARITY_THRESHOLD, <<payload.avg_name_similarity, 1000>>)

\* the name of the per-group file of line 246
GroupFileName(batch_name, payload) ==
    sanitize_filename(batch_name) \o <<"_">>
        \o sanitize_filename(payload.usernames[1].s) \o <<".", "j", "s", "o", "n">>

(***************************************************************************)
(* State                                                                   *)
(***************************************************************************)
VARIABLES
    \* process_batches
    batches,        \* the batch directories of data/www, sorted
    bidx,           \* how many of them the loop of line 226 has taken
    pc,             \* "next_batch", "cluster", "validate", "done", "crashed"; "idle"
    data,           \* the loaded data.json of the current batch
    cidx,           \* position of the loop of line 237 in clusters
    suspicious_for_batch,
    all_groups,
    bot_files,      \* Bot_Recognition: set of [name, payload], one per file name
    combined,       \* suspicious_accounts.json
    collections,    \* suspicious_accounts_collections, by sequence index
    \* cluster_similar_users
    entries,        \* <<uid, uname>> in the order of the data
    unassigned,
    eidx,           \* position of the loop of line 178 in entries
    clusters,
    \* history
    formed,         \* every group of this batch: [seed, group, pool, kept]
    cluster_log,    \* what cluster_similar_users returned, per batch of this run
    prev_log,       \* cluster_log of the previous run over the same data/www
    \* calls of the pure functions
    in_raw, norm,                      \* normalize_name_variants(in_raw)
    in_a, in_b, sim_ab, sim_ba,   \* max_variant_similarity both ways
    in_vals, in_tol, consistent           \* scores_consistent(in_vals, in_tol)

orchVars  == <<batches, bidx, pc, data, cidx, suspicious_for_batch, all_groups,
               bot_files, combined, collections>>
clustVars == <<entries, unassigned, eidx, clusters, formed>>
histVars  == <<cluster_log, prev_log>>
pureVars  == <<in_raw, norm, in_a, in_b, sim_ab, sim_ba, in_vals, in_tol, consistent>>

(***************************************************************************)
(* State of the crawler (Script/PythonPort.py)                             *)
(***************************************************************************)
VARIABLES
    cpc,          \* position of run(): "idle", "start", "loop", "got", "write1",
                  \* "write2", "advance", "save_users", "save_last",
                  \* "stop_users", "complete_users", "done", "dead"
    last,         \* the dict last of run(): [page, complete]
    store,        \* the pages whose entries the dict store holds
    page,         \* the local page
    start_page,
    stop,         \* the global _stop
    resp,         \* what fetch_page gave for the current page
    last_json,    \* data/<server>/last.json: [exists, page, complete]
    users_json,   \* data/<server>/users.json: the pages whose entries it holds
    restarts,     \* how often the crawler was started again
    done_resp     \* the response on which this run marked the crawl complete

crawlVars == <<cpc, last, store, page, start_page, stop, resp, last_json,
               users_json, restarts, done_resp>>

vars      == <<orchVars, clustVars, histVars, pureVars, sim_cache, crawlVars>>

\* load_json_if_exists(last_path, {"page": 1})
DefaultLast == [page |-> 1, complete |-> FALSE]
NoFile      == [exists |-> FALSE, page |-> 0, complete |-> FALSE]

CrawlMemoryReset ==
    /\ last = DefaultLast /\ store = {} /\ page = 0 /\ start_page = 0
    /\ stop = FALSE /\ resp = "none" /\ done_resp = "none"

CrawlIdle ==
    /\ cpc = "idle" /\ CrawlMemoryReset
    /\ last_json = NoFile /\ users_json = {} /\ restarts = 0

NotWritten == [written |-> FALSE, total |-> 0, groups |-> <<>>]
NoLog      == [some |-> FALSE, log |-> <<>>]
NotCalled  == [called |-> FALSE, raised |-> FALSE, vars |-> <<>>, sim |-> Zero,
               result |-> FALSE]

OrchIdle ==
    /\ batches = <<>> /\ bidx = 0 /\ pc = "idle" /\ data = <<>> /\ cidx = 0
    /\ suspicious_for_batch = <<>> /\ all_groups = <<>> /\ bot_files = {}
    /\ combined = NotWritten /\ collections = <<>>
    /\ entries = <<>> /\ unassigned = {} /\ eidx = 0 /\ clusters = <<>>
    /\ formed = <<>> /\ cluster_log = <<>> /\ prev_log = NoLog
    /\ sim_cache = <<>>

PureIdle ==
    /\ in_raw = Null /\ norm = NotCalled
    /\ in_a = Null /\ in_b = Null /\ sim_ab = NotCalled /\ sim_ba = NotCalled
    /\ in_vals = <<>> /\ in_tol = SCORE_TOLERANCE_RATIO /\ consistent = NotCalled

(***************************************************************************)
(* process_batches over one data/www (MainFilter.py lines 220-259)         *)
(***************************************************************************)
Init ==
    /\ \E F \in Families :
          /\ sim_cache = SimTable(F)
          /\ \E files \in {DataFiles(F)} : batches \in Corpora(files)
    /\ bidx = 0 /\ pc = "next_batch" /\ data = <<>> /\ cidx = 0
    /\ suspicious_for_batch = <<>> /\ all_groups = <<>> /\ bot_files = {}
    /\ combined = NotWritten /\ collections = <<>>
    /\ entries = <<>> /\ unassigned = {} /\ eidx = 0 /\ clusters = <<>>
    /\ formed = <<>> /\ cluster_log = <<>> /\ prev_log = NoLog
    /\ PureIdle /\ CrawlIdle

\* lines 226-234: a batch directory without data.json, or with one that
\* cannot be opened or parsed, is passed over
SkipBatch ==
    /\ pc = "next_batch" /\ bidx < Len(batches)
    /\ batches[bidx + 1].kind \in {"missing", "unreadable"}
    /\ bidx' = bidx + 1
    /\ UNCHANGED <<batches, pc, data, cidx, suspicious_for_batch, all_groups,
                   bot_files, combined, collections, clustVars, histVars,
                   pureVars, sim_cache, crawlVars>>

\* lines 230-235 and 172: data.json is parsed, it is an array, and
\* users.items() raises AttributeError, which nothing catches
LoadArray ==
    /\ pc = "next_batch" /\ bidx < Len(batches)
    /\ batches[bidx + 1].kind = "array"
    /\ bidx' = bidx + 1
    /\ pc' = "crashed"
    /\ UNCHANGED <<batches, data, cidx, suspicious_for_batch, all_groups,
                   bot_files, combined, collections, clustVars, histVars,
                   pureVars, sim_cache, crawlVars>>

\* lines 226-235 and 171-177: the next batch is loaded and clustering starts
StartBatch ==
    /\ pc = "next_batch" /\ bidx < Len(batches)
    /\ batches[bidx + 1].kind = "object"
    /\ LET users == batches[bidx + 1].data
       IN  /\ data' = users
           /\ entries' = [i \in 1..Len(users) |->
                            <<users[i].uid, EffName(users[i].username)>>]
           /\ unassigned' = {users[i].uid : i \in 1..Len(users)}
    /\ bidx' = bidx + 1
    /\ eidx' = 1 /\ clusters' = <<>> /\ formed' = <<>>
    /\ pc' = "cluster"
    /\ UNCHANGED <<batches, cidx, suspicious_for_batch, all_groups, bot_files,
                   combined, collections, histVars, pureVars, sim_cache, crawlVars>>

\* name_map[uid]
NameOf(uid) == entries[CHOOSE i \in 1..Len(entries) : entries[i][1] = uid][2]

\* lines 178-180: an entry that already joined a group is passed over
ClusterSkip ==
    /\ pc = "cluster" /\ eidx <= Len(entries)
    /\ entries[eidx][1] \notin unassigned
    /\ eidx' = eidx + 1
    /\ UNCHANGED <<orchVars, entries, unassigned, clusters, formed, histVars, pureVars, sim_cache, crawlVars>>

\* lines 181-190: an unassigned entry seeds a group.  to_check = list(unassigned)
\* lists a set of str, whose iteration order is not fixed by the program
\* (str hashes differ from one interpreter run to the next).  sims[i] is the
\* result of line 185 for to_check[i]; a raise ends the program.
\* a scan that stops at the first candidate that passes the threshold
JoinedFirstOnly(to_check, sims) ==
    Concat([i \in 1..Len(to_check) |->
              IF /\ RatGeq(sims[i].sim, NAME_SIMILARITY_THRESHOLD)
                 /\ \A j \in 1..(i - 1) :
                       ~RatGeq(sims[j].sim, NAME_SIMILARITY_THRESHOLD)
              THEN <<to_check[i]>> ELSE <<>>])

\* a scan that leaves the members it adds in the unassigned set
RemainingAll(pool, joined) == pool

\* lines 184-188: the candidates that join the group, in the order scanned
Joined(to_check, sims) ==
    Concat([i \in 1..Len(to_check) |->
              IF RatGeq(sims[i].sim, NAME_SIMILARITY_THRESHOLD)
              THEN <<to_check[i]>> ELSE <<>>])

\* line 188 (and 182 for the seed, which pool already excludes)
Remaining(pool, joined) == pool \ Range(joined)

SeedGroup(uid, nm, pool, to_check, sims) ==
    IF \E i \in 1..Len(sims) : sims[i].raised
    THEN /\ pc' = "crashed"
         /\ UNCHANGED <<batches, bidx, data, cidx, suspicious_for_batch,
                        all_groups, bot_files, combined, collections, clustVars>>
    ELSE \E joined \in {Joined(to_check, sims)} :
            /\ unassigned' = Remaining(pool, joined)
            /\ clusters' = IF 1 + Len(joined) >= MIN_GROUP_SIZE
                           THEN Append(clusters, <<uid>> \o joined) ELSE clusters
            /\ formed' = Append(formed,
                                [seed  |-> uid,
                                 group |-> <<uid>> \o joined,
                                 pool  |-> pool,
                                 kept  |-> 1 + Len(joined) >= MIN_GROUP_SIZE])
            /\ eidx' = eidx + 1
            /\ UNCHANGED <<orchVars, entries>>

ClusterSeed ==
    /\ pc = "cluster" /\ eidx <= Len(entries)
    /\ entries[eidx][1] \in unassigned
    /\ \E to_check \in Orderings(unassigned \ {entries[eidx][1]}) :
         \E sims \in {[i \in 1..Len(to_check) |->
                         Similarity(entries[eidx][2], NameOf(to_check[i]))]} :
            SeedGroup(entries[eidx][1], entries[eidx][2],
                      unassigned \ {entries[eidx][1]}, to_check, sims)
    /\ UNCHANGED <<histVars, pureVars, sim_cache, crawlVars>>

\* line 191: cluster_similar_users returns
ClusterReturn ==
    /\ pc = "cluster" /\ eidx > Len(entries)
    /\ pc' = "validate" /\ cidx' = 1 /\ suspicious_for_batch' = <<>>
    /\ cluster_log' = Append(cluster_log, clusters)
    /\ UNCHANGED <<batches, bidx, data, all_groups, bot_files, combined,
                   collections, clustVars, prev_log, pureVars, sim_cache, crawlVars>>

\* lines 237-248: one cluster is scored and kept or dropped
ValidateCluster ==
    /\ pc = "validate" /\ cidx <= Len(clusters)
    /\ \E payload \in {build_group_payload(clusters[cidx], data)} :
          IF \/ payload.count < MIN_GROUP_SIZE
             \/ BelowNameThreshold(payload)
             \/ ~payload.score_consistent
          THEN UNCHANGED <<suspicious_for_batch, bot_files>>
          ELSE \E fn \in {GroupFileName(batches[bidx].name, payload)} :
                 /\ suspicious_for_batch' = Append(suspicious_for_batch, payload)
                 /\ bot_files' = {f \in bot_files : f.name # fn}
                                    \cup {[name |-> fn, payload |-> payload]}
    /\ cidx' = cidx + 1
    /\ UNCHANGED <<batches, bidx, pc, data, all_groups, combined, collections,
                   clustVars, histVars, pureVars, sim_cache, crawlVars>>

\* lines 249-250
EndBatch ==
    /\ pc = "validate" /\ cidx > Len(clusters)
    /\ all_groups' = all_groups \o suspicious_for_batch
    /\ pc' = "next_batch"
    /\ UNCHANGED <<batches, bidx, data, cidx, suspicious_for_batch, bot_files,
                   combined, collections, clustVars, histVars, pureVars, sim_cache, crawlVars>>

\* lines 251-259: the combined summary and the collection copies
WriteSummary ==
    /\ pc = "next_batch" /\ bidx = Len(batches)
    /\ combined' = [written |-> TRUE, total |-> Len(all_groups), groups |-> all_groups]
    /\ collections' = [i \in 1..Max(Len(collections), Len(all_groups)) |->
                         IF i <= Len(all_groups) THEN all_groups[i] ELSE collections[i]]
    /\ pc' = "done"
    /\ UNCHANGED <<batches, bidx, data, cidx, suspicious_for_batch, all_groups,
                   bot_files, clustVars, histVars, pureVars, sim_cache, crawlVars>>

\* the program is run once more over the same data/www; the output files of
\* the first run are still on disk
Restart ==
    /\ pc = "done" /\ ~prev_log.some
    /\ prev_log' = [some |-> TRUE, log |-> cluster_log]
    /\ cluster_log' = <<>>
    /\ bidx' = 0 /\ pc' = "next_batch" /\ data' = <<>> /\ cidx' = 0
    /\ suspicious_for_batch' = <<>> /\ all_groups' = <<>>
    /\ entries' = <<>> /\ unassigned' = {} /\ eidx' = 0 /\ clusters' = <<>>
    /\ formed' = <<>>
    /\ UNCHANGED <<batches, bot_files, combined, collections, pureVars, sim_cache, crawlVars>>

Next ==
    \/ SkipBatch
    \/ LoadArray
    \/ StartBatch
    \/ ClusterSkip
    \/ ClusterSeed
    \/ ClusterReturn
    \/ ValidateCluster
    \/ EndBatch
    \/ WriteSummary
    \/ Restart



Spec == Init /\ [][Next]_vars

(***************************************************************************)
(* normalize_name_variants called on its own                               *)
(***************************************************************************)
MaxNameLen == 3

\* characters of raw usernames: letters of both cases, a digit with a leet
\* reading, two separators, a letter that transliterates to two
NormAlphabet == {"a", "A", "1", " ", "_", "U+00DF"}

\* username values of a JSON document that are not a str
NonStrValues == {Null, Num(0), Num(7)}

NormInputs == {Str(s) : s \in SeqsUpTo(NormAlphabet, MaxNameLen)} \cup NonStrValues

InitNorm ==
    /\ OrchIdle /\ CrawlIdle
    /\ in_raw \in NormInputs /\ norm = NotCalled
    /\ in_a = Null /\ in_b = Null /\ sim_ab = NotCalled /\ sim_ba = NotCalled
    /\ in_vals = <<>> /\ in_tol = SCORE_TOLERANCE_RATIO /\ consistent = NotCalled

Called(res) == [NotCalled EXCEPT !.called = TRUE, !.raised = res.raised]

\* variants = normalize_name_variants(in_raw)
CallNormalize ==
    /\ pc = "idle" /\ ~norm.called
    /\ \E res \in {normalize_name_variants(in_raw)} :
          norm' = [Called(res) EXCEPT !.vars = res.vars]
    /\ UNCHANGED <<orchVars, clustVars, histVars, sim_cache, crawlVars, in_raw,
                   in_a, in_b, sim_ab, sim_ba, in_vals, in_tol, consistent>>

NextNorm == CallNormalize

SpecNorm == InitNorm /\ [][NextNorm]_vars

(***************************************************************************)
(* max_variant_similarity called on a pair of names, in both orders        *)
(***************************************************************************)
MaxSimLen == 3

SimAlphabet == {"a", "b", "1"}

\* names that are not empty and have no variant
BlankNames == {Str(<<" ">>), Str(<<"_", "_">>), Str(<<"*">>)}

SimInputs ==
    {Str(s) : s \in SeqsUpTo(SimAlphabet, MaxSimLen)} \cup BlankNames \cup NonStrValues

InitSim ==
    /\ OrchIdle /\ CrawlIdle
    /\ in_raw = Null /\ norm = NotCalled
    /\ in_a \in SimInputs /\ in_b \in SimInputs
    /\ sim_ab = NotCalled /\ sim_ba = NotCalled
    /\ in_vals = <<>> /\ in_tol = SCORE_TOLERANCE_RATIO /\ consistent = NotCalled

\* max_variant_similarity(in_a, in_b)
CallSimAB ==
    /\ pc = "idle" /\ in_raw = Null /\ in_vals = <<>> /\ ~sim_ab.called
    /\ ~consistent.called /\ ~norm.called
    /\ \E res \in {max_variant_similarity(in_a, in_b)} :
          sim_ab' = [Called(res) EXCEPT !.sim = res.sim]
    /\ UNCHANGED <<orchVars, clustVars, histVars, sim_cache, crawlVars, in_raw, norm,
                   in_a, in_b, sim_ba, in_vals, in_tol, consistent>>

\* max_variant_similarity(in_b, in_a)
CallSimBA ==
    /\ pc = "idle" /\ in_raw = Null /\ in_vals = <<>> /\ ~sim_ba.called
    /\ ~consistent.called /\ ~norm.called
    /\ \E res \in {max_variant_similarity(in_b, in_a)} :
          sim_ba' = [Called(res) EXCEPT !.sim = res.sim]
    /\ UNCHANGED <<orchVars, clustVars, histVars, sim_cache, crawlVars, in_raw, norm,
                   in_a, in_b, sim_ab, in_vals, in_tol, consistent>>

NextSim ==
    \/ CallSimAB
    \/ CallSimBA

SpecSim == InitSim /\ [][NextSim]_vars

(***************************************************************************)
(* scores_consistent called on its own                                     *)
(***************************************************************************)
MaxScores == 3
MaxSmall  == 2

\* scores: the small multiples of 1/ScoreDen around zero, and 1, 100, 1000
ScoreValues ==
    (-MaxSmall..MaxSmall) \cup {ScoreDen, 100 * ScoreDen, 1000 * ScoreDen}

Tolerances == {SCORE_TOLERANCE_RATIO, <<0, 1>>, <<2, 1>>}

InitScore ==
    /\ OrchIdle /\ CrawlIdle
    /\ in_raw = Null /\ norm = NotCalled
    /\ in_a = Null /\ in_b = Null /\ sim_ab = NotCalled /\ sim_ba = NotCalled
    /\ in_vals \in SeqsUpTo(ScoreValues, MaxScores) /\ in_tol \in Tolerances
    /\ consistent = NotCalled

\* scores_consistent(in_vals, in_tol)
CallScoresConsistent ==
    /\ pc = "idle" /\ ~consistent.called
    /\ consistent' = [NotCalled EXCEPT !.called = TRUE,
                                       !.result = scores_consistent(in_vals, in_tol)]
    /\ UNCHANGED <<orchVars, clustVars, histVars, sim_cache, crawlVars, in_raw, norm,
                   in_a, in_b, sim_ab, sim_ba, in_vals, in_tol>>

NextScore == CallScoresConsistent

SpecScore == InitScore /\ [][NextScore]_vars

(***************************************************************************)
(* The crawler: run() of Script/PythonPort.py (lines 79-147), one action    *)
(* per step between two writes of a file.  A response is one of            *)
(*   "fail"     fetch_page raises (no connection, timeout, HTTP error),    *)
(*   "nonjson"  the body is no JSON: fetch_page returns {},                *)
(*   "nodata"   a JSON object without "data",                              *)
(*   "empty"    a JSON object whose "data" is [], or the array [],         *)
(*   "entries"  an entry list that is not empty.                           *)
(***************************************************************************)
MaxPages    == 3
MaxRestarts == 2

\* what the server may answer for page pg; the leaderboard has MaxPages pages
Responses(pg) ==
    {"fail", "nonjson", "nodata", "empty"}
        \cup (IF pg <= MaxPages THEN {"entries"} ELSE {})

\* lines 127-128: the files written after a merge, in this order
SwappedWriteOrder == <<"last", "users">>
NormalWriteOrder  == <<"users", "last">>

\* atomic_write(last_path, last)
WrittenLast == [exists |-> TRUE, page |-> last.page, complete |-> last.complete]

\* atomic_write of one of the two files
WriteFile(which) ==
    IF which = "users"
    THEN users_json' = store /\ UNCHANGED last_json
    ELSE last_json' = WrittenLast /\ UNCHANGED users_json

NotCrawl == <<orchVars, clustVars, histVars, pureVars, sim_cache>>

InitCrawl ==
    /\ OrchIdle /\ PureIdle
    /\ cpc = "start" /\ CrawlMemoryReset
    /\ last_json = NoFile /\ users_json = {} /\ restarts = 0

\* lines 86-94: last.json and users.json are loaded
LoadState ==
    /\ cpc = "start"
    /\ last' = IF last_json.exists
               THEN [page |-> last_json.page, complete |-> last_json.complete]
               ELSE DefaultLast
    /\ store' = users_json
    /\ start_page' = IF last'.page <= 0 THEN 1 ELSE last'.page
    /\ page' = start_page'
    /\ cpc' = "loop"
    /\ UNCHANGED <<stop, resp, last_json, users_json, restarts, done_resp, NotCrawl>>

\* lines 72-74: SIGINT or SIGTERM arrives
SignalStop ==
    /\ cpc \notin {"idle", "dead", "done"} /\ ~stop
    /\ stop' = TRUE
    /\ UNCHANGED <<cpc, last, store, page, start_page, resp, last_json,
                   users_json, restarts, done_resp, NotCrawl>>

\* lines 97-99
StopSaveLast ==
    /\ cpc = "loop" /\ stop
    /\ last' = [last EXCEPT !.page = page]
    /\ last_json' = [exists |-> TRUE, page |-> page, complete |-> last.complete]
    /\ cpc' = "stop_users"
    /\ UNCHANGED <<store, page, start_page, stop, resp, users_json, restarts,
                   done_resp, NotCrawl>>

\* lines 100-101
StopSaveUsers ==
    /\ cpc = "stop_users"
    /\ users_json' = store
    /\ cpc' = "done"
    /\ UNCHANGED <<last, store, page, start_page, stop, resp, last_json,
                   restarts, done_resp, NotCrawl>>

\* lines 102-107: the page is fetched; on an exception the loop goes round
FetchPage ==
    /\ cpc = "loop" /\ ~stop
    /\ \E r \in Responses(page) :
          /\ resp' = r
          /\ cpc' = IF r = "fail" THEN "loop" ELSE "got"
    /\ UNCHANGED <<last, store, page, start_page, stop, last_json, users_json,
                   restarts, done_resp, NotCrawl>>

\* lines 109-121: data_array is empty: the crawl is marked complete
MarkComplete ==
    /\ cpc = "got" /\ resp # "entries"
    /\ last' = [page |-> page, complete |-> TRUE]
    /\ last_json' = [exists |-> TRUE, page |-> page, complete |-> TRUE]
    /\ done_resp' = resp
    /\ cpc' = "complete_users"
    /\ UNCHANGED <<store, page, start_page, stop, resp, users_json, restarts,
                   NotCrawl>>

\* lines 122-123
CompleteSaveUsers ==
    /\ cpc = "complete_users"
    /\ users_json' = store
    /\ cpc' = "done"
    /\ UNCHANGED <<last, store, page, start_page, stop, resp, last_json,
                   restarts, done_resp, NotCrawl>>

\* lines 109-116 and 125-126: the entries are merged, last["page"] = page + 1
MergePage ==
    /\ cpc = "got" /\ resp = "entries"
    /\ store' = store \cup {page}
    /\ last' = [last EXCEPT !.page = page + 1]
    /\ cpc' = "write1"
    /\ UNCHANGED <<page, start_page, stop, resp, last_json, users_json,
                   restarts, done_resp, NotCrawl>>

\* line 127
WriteFirst ==
    /\ cpc = "write1"
    /\ WriteFile(NormalWriteOrder[1])
    /\ cpc' = "write2"
    /\ UNCHANGED <<last, store, page, start_page, stop, resp, restarts,
                   done_resp, NotCrawl>>

\* line 128
WriteSecond ==
    /\ cpc = "write2"
    /\ WriteFile(NormalWriteOrder[2])
    /\ cpc' = "advance"
    /\ UNCHANGED <<last, store, page, start_page, stop, resp, restarts,
                   done_resp, NotCrawl>>

\* lines 141-143: page += 1; SAVE_INTERVAL has passed since the last periodic
\* save, or it has not
AdvancePage ==
    /\ cpc = "advance"
    /\ page' = page + 1
    /\ \E due \in BOOLEAN : cpc' = IF due THEN "save_users" ELSE "loop"
    /\ UNCHANGED <<last, store, start_page, stop, resp, last_json, users_json,
                   restarts, done_resp, NotCrawl>>

\* line 144
PeriodicSaveUsers ==
    /\ cpc = "save_users"
    /\ users_json' = store
    /\ cpc' = "save_last"
    /\ UNCHANGED <<last, store, page, start_page, stop, resp, last_json,
                   restarts, done_resp, NotCrawl>>

\* lines 145-147
PeriodicSaveLast ==
    /\ cpc = "save_last"
    /\ last_json' = WrittenLast
    /\ cpc' = "loop"
    /\ UNCHANGED <<last, store, page, start_page, stop, resp, users_json,
                   restarts, done_resp, NotCrawl>>

\* the process is killed, or an exception ends it; the files stay
Crash ==
    /\ cpc \notin {"idle", "dead", "done"}
    /\ cpc' = "dead"
    /\ UNCHANGED <<last, store, page, start_page, stop, resp, last_json,
                   users_json, restarts, done_resp, NotCrawl>>

\* lines 149-156: the script is started again in the same directory
RestartCrawl ==
    /\ cpc \in {"dead", "done"} /\ restarts < MaxRestarts
    /\ restarts' = restarts + 1
    /\ cpc' = "start"
    /\ last' = DefaultLast /\ store' = {} /\ page' = 0 /\ start_page' = 0
    /\ stop' = FALSE /\ resp' = "none" /\ done_resp' = "none"
    /\ UNCHANGED <<last_json, users_json, NotCrawl>>

NextCrawl ==
    \/ LoadState
    \/ SignalStop
    \/ StopSaveLast
    \/ StopSaveUsers
    \/ FetchPage
    \/ MarkComplete
    \/ CompleteSaveUsers
    \/ MergePage
    \/ WriteFirst
    \/ WriteSecond
    \/ AdvancePage
    \/ PeriodicSaveUsers
    \/ PeriodicSaveLast
    \/ Crash
    \/ RestartCrawl

SpecCrawl == InitCrawl /\ [][NextCrawl]_vars

(***************************************************************************)
(* Properties of cluster_similar_users and process_batches (Spec)          *)
(***************************************************************************)

\* C1: in every group that cluster_similar_users forms, the first element is
\* the seed, and the other members are exactly the accounts that were
\* unassigned when the seed was taken and whose name has a similarity to the
\* seed's name of at least the threshold; every returned group is such a
\* group.  Similarity to the other members plays no part.
C1_SeedDecidesMembership ==
    /\ \A k \in 1..Len(formed) :
          /\ formed[k].group[1] = formed[k].seed
          /\ Cardinality(Range(formed[k].group)) = Len(formed[k].group)
          /\ Range(Tail(formed[k].group))
               = {u \in formed[k].pool :
                    RatGeq(Similarity(NameOf(formed[k].seed), NameOf(u)).sim,
                           NAME_SIMILARITY_THRESHOLD)}
    /\ \A c \in 1..Len(clusters) :
          \E k \in 1..Len(formed) : formed[k].kept /\ formed[k].group = clusters[c]

\* a returned group of three or more, formed while an account that did not
\* join was unassigned
C1_Witness ==
    \E k \in 1..Len(formed) :
        /\ formed[k].kept
        /\ Len(formed[k].group) >= 3
        /\ formed[k].pool \ Range(formed[k].group) # {}
        /\ \E c \in 1..Len(clusters) : clusters[c] = formed[k].group

\* C2: an account that left the unassigned set is not reconsidered: the groups
\* formed in one batch, kept or discarded, are pairwise disjoint, the returned
\* groups are the kept ones in the order formed, and no member of a discarded
\* group is in a returned group.  For the accounts a, b, c, d in this order,
\* where only a~b and c~d pass the threshold, the groups formed are [a, b] and
\* [c, d], and nothing is returned with a minimum size of 3.
C2_NoAccountReconsidered ==
    /\ \A i, j \in 1..Len(formed) :
          i # j => Range(formed[i].group) \cap Range(formed[j].group) = {}
    /\ clusters = Concat([k \in 1..Len(formed) |->
                            IF formed[k].kept THEN <<formed[k].group>> ELSE <<>>])
    /\ \A c \in 1..Len(clusters), k \in 1..Len(formed) :
          ~formed[k].kept => Range(clusters[c]) \cap Range(formed[k].group) = {}
    /\ ( /\ pc = "validate"
         /\ [i \in 1..Len(entries) |-> entries[i][1]] = <<"a", "b", "c", "d">> )
       => /\ [k \in 1..Len(formed) |-> formed[k].group]
                = << <<"a", "b">>, <<"c", "d">> >>
          /\ clusters = <<>>

\* cluster_similar_users has returned for the batch a, b, c, d
C2_Witness ==
    /\ pc = "validate"
    /\ [i \in 1..Len(entries) |-> entries[i][1]] = <<"a", "b", "c", "d">>
    /\ Len(formed) = 2 /\ ~formed[1].kept /\ ~formed[2].kept
    /\ cluster_log[Len(cluster_log)] = <<>>

\* C3: two runs over the same data/www return the same lists of groups: the
\* same groups in the same order, with the members of each group in the same
\* order.
C3_SameGroupsOnEveryRun ==
    (pc = "done" /\ prev_log.some) => cluster_log = prev_log.log

\* C4: every group written to an output artifact has at least three accounts,
\* an average pairwise name similarity, as pairwise_avg_similarity computes
\* it, of at least 0.70, and scores that are consistent under tolerance 0.30.
C4_EmittedGroupsPassAllThree ==
    \A p \in Range(suspicious_for_batch) \cup Range(all_groups)
               \cup Range(combined.groups) \cup Range(collections)
               \cup {f.payload : f \in bot_files} :
        /\ p.count >= MIN_GROUP_SIZE
        /\ RatGeq(pairwise_avg_similarity(p.usernames), NAME_SIMILARITY_THRESHOLD)
        /\ scores_consistent(ScoresOf(p.accounts), SCORE_TOLERANCE_RATIO)

\* C5: for one batch of the five accounts GoldFarmer1, GoldFarmer2,
\* GoldFarmer3 (scores 500, 520, 510), Alex (10) and Jamie (9999), in any
\* order, the run accepts exactly one group: the three GoldFarmer accounts,
\* with score_consistent true and avg_name_similarity at least 0.70.
C5_GoldFarmersAccepted ==
    ( /\ pc = "done"
      /\ Len(batches) = 1
      /\ Range(batches[1].data) = GoldFamily )
    => /\ combined.written /\ combined.total = 1 /\ Len(combined.groups) = 1
       /\ Cardinality(bot_files) = 1
       /\ \A f \in bot_files : f.payload = combined.groups[1]
       /\ {combined.groups[1].accounts[i].user_id :
              i \in 1..Len(combined.groups[1].accounts)} = {"g1", "g2", "g3"}
       /\ combined.groups[1].count = 3
       /\ combined.groups[1].score_consistent
       /\ combined.groups[1].avg_name_similarity >= 700

\* the run over the five accounts has ended with its summary written
C5_Witness ==
    /\ pc = "done"
    /\ Len(batches) = 1
    /\ Range(batches[1].data) = GoldFamily
    /\ batches[1].data[1].uid = "x2"
    /\ combined.written /\ combined.total = 1

C14_BadBatchSkipped ==
    (bidx >= 1 /\ batches[bidx].kind \in BadKinds) =>
        /\ pc \in {"next_batch", "done"}
        /\ suspicious_for_batch = <<>> /\ all_groups = <<>>

\* C15: a missing or non-numeric score does not change cluster membership:
\* every unassigned account that passes the threshold against the seed joins,
\* whatever its score; in the payload of a returned cluster such an account
\* is among the accounts and in the count, and the score list holds exactly
\* the numeric scores; a group with fewer than two numeric scores has
\* score_consistent false and is in no output.
C15_MissingScoresKeepMembership ==
    LET numeric(v) == \/ v.t = "num"
                      \/ v.t = "str" /\ v.s # <<>> /\ Range(v.s) \subseteq Digits
        scored(acc) == {i \in 1..Len(acc) : acc[i].score.ok}
    IN  /\ \A k \in 1..Len(formed) :
              \A u \in formed[k].pool :
                  RatGeq(Similarity(NameOf(formed[k].seed), NameOf(u)).sim,
                         NAME_SIMILARITY_THRESHOLD)
                    => u \in Range(formed[k].group)
        /\ pc = "validate" =>
              \A c \in 1..Len(clusters) :
                \A p \in {build_group_payload(clusters[c], data)} :
                  \A nums \in {{i \in 1..Len(clusters[c]) :
                                   numeric(UserOf(data, clusters[c][i]).score)}} :
                      /\ p.count = Len(clusters[c])
                      /\ Len(p.accounts) = Len(clusters[c])
                      /\ scored(p.accounts) = nums
                      /\ Cardinality(nums) < 2 => ~p.score_consistent
        /\ \A p \in Range(suspicious_for_batch) \cup Range(all_groups)
                      \cup Range(combined.groups) \cup Range(collections)
                      \cup {f.payload : f \in bot_files} :
              Cardinality(scored(p.accounts)) >= 2

\* a group of three with one account that has no score was written to a file
C15_Witness ==
    \E f \in bot_files :
        /\ Len(f.payload.accounts) = 3
        /\ \E i \in 1..3 : ~f.payload.accounts[i].score.ok
        /\ f.payload.score_consistent

\* C16: after a run into an empty output directory there is one per-group file
\* for each accepted group: the number of files in Bot_Recognition equals the
\* total of the combined summary, and every accepted group is the content of
\* a file.
C16_OneFilePerAcceptedGroup ==
    (pc = "done" /\ ~prev_log.some) =>
        /\ Cardinality(bot_files) = combined.total
        /\ \A g \in 1..Len(combined.groups) :
              \E f \in bot_files : f.payload = combined.groups[g]

\* C18: for every cluster cluster_similar_users returns, the count of the
\* payload is the number of ids of the cluster, which is at least the minimum
\* group size: the size test after build_group_payload rejects no cluster.
C18_SecondSizeCheckRedundant ==
    pc = "validate" =>
        \A c \in 1..Len(clusters) :
            \A p \in {build_group_payload(clusters[c], data)} :
                /\ Len(clusters[c]) >= MIN_GROUP_SIZE
                /\ p.count = Len(clusters[c])
                /\ ~(p.count < MIN_GROUP_SIZE)

\* every cluster of a batch was validated, one of them with an account that
\* has no numeric score
C18_Witness ==
    /\ pc = "validate" /\ cidx > Len(clusters) /\ Len(clusters) >= 1
    /\ \E i \in 1..Len(clusters[1]) :
          ~numeric_score(UserOf(data, clusters[1][i]).score).ok

\* C19: in the payload of every returned cluster, the i-th account entry has
\* the i-th id of the cluster as user_id and that account's latest username
\* as username, and the usernames list holds the latest usernames, whatever
\* other fields the records carry.
C19_PayloadKeepsIdsAndNames ==
    pc = "validate" =>
        \A c \in 1..Len(clusters) :
            /\ \A i \in 1..Len(clusters[c]) :
                  /\ build_group_payload(clusters[c], data).accounts[i].user_id
                       = clusters[c][i]
                  /\ build_group_payload(clusters[c], data).accounts[i].username
                       = EffName(UserOf(data, clusters[c][i]).username)
            /\ build_group_payload(clusters[c], data).usernames
                 = [i \in 1..Len(clusters[c]) |->
                      EffName(UserOf(data, clusters[c][i]).username)]

(***************************************************************************)
(* Properties of scores_consistent (SpecScore)                             *)
(***************************************************************************)

\* C6: scores_consistent is false for fewer than two scores; otherwise, with m
\* the median, it is true exactly when m = 0 and every |score| <= tol, or
\* m # 0 and every |score - m| / max(|m|, 1.0) <= tol.  With tol = 0.30:
\* [100, 100] and [0, 0] are consistent, [100, 1000] and [0, 1] are not.
C6_ConsistentAsSpecified ==
    consistent.called =>
        /\ consistent.result
             = ( /\ Len(in_vals) >= 2
                 /\ \/ /\ median2(in_vals) = 0
                       /\ \A i \in 1..Len(in_vals) :
                             Abs(in_vals[i]) * in_tol[2] <= in_tol[1] * ScoreDen
                    \/ /\ median2(in_vals) # 0
                       /\ \A i \in 1..Len(in_vals) :
                             Abs(2 * in_vals[i] - median2(in_vals)) * in_tol[2]
                               <= in_tol[1] * Max(Abs(median2(in_vals)), 2 * ScoreDen) )
        /\ in_tol = <<30, 100>> =>
             /\ in_vals = <<100 * ScoreDen, 100 * ScoreDen>> => consistent.result
             /\ in_vals = <<100 * ScoreDen, 1000 * ScoreDen>> => ~consistent.result
             /\ in_vals = <<0, 0>> => consistent.result
             /\ in_vals = <<0, ScoreDen>> => ~consistent.result

\* three scores around a median below 1.0 that the floor of 1.0 makes consistent
C6_Witness ==
    /\ consistent.called /\ consistent.result
    /\ Len(in_vals) = 3 /\ in_tol = <<30, 100>>
    /\ median2(in_vals) # 0 /\ Abs(median2(in_vals)) < 2 * ScoreDen
    /\ \E i \in 1..Len(in_vals) : 2 * in_vals[i] # median2(in_vals)

(***************************************************************************)
(* Properties of normalize_name_variants (SpecNorm)                        *)
(***************************************************************************)

\* C7: the list normalize_name_variants returns holds no string at two
\* different positions.
C7_VariantsDistinct ==
    (norm.called /\ ~norm.raised) =>
        \A i, j \in 1..Len(norm.vars) : norm.vars[i] = norm.vars[j] => i = j

\* C11: no string that normalize_name_variants returns is longer than the raw
\* username, in characters, also when the username holds characters that
\* unidecode rewrites.
C11_VariantsNoLongerThanInput ==
    (norm.called /\ ~norm.raised /\ in_raw.t = "str") =>
        \A i \in 1..Len(norm.vars) : Len(norm.vars[i]) <= Len(in_raw.s)

\* C12: every string that normalize_name_variants returns is non-empty and
\* holds only the characters a-z and 0-9 (so no uppercase letter); for the
\* empty username the list is empty.
C12_VariantsLowerAlnum ==
    (norm.called /\ ~norm.raised) =>
        /\ \A i \in 1..Len(norm.vars) :
              /\ norm.vars[i] # <<>>
              /\ Range(norm.vars[i]) \subseteq LowerLetters \cup Digits
        /\ in_raw = Str(<<>>) => norm.vars = <<>>

\* a username with an uppercase letter, a separator and a digit was normalized
C12_Witness ==
    /\ norm.called /\ ~norm.raised /\ in_raw.t = "str"
    /\ {"A", "_", "1"} \subseteq Range(in_raw.s)
    /\ Len(norm.vars) >= 2

(***************************************************************************)
(* Properties of max_variant_similarity (SpecSim)                          *)
(***************************************************************************)

\* C8, as stated: the similarity of every non-empty raw username to itself
\* is 1.0.
C8_SelfSimilarityOfNonEmpty ==
    (sim_ab.called /\ in_a = in_b /\ in_a.t = "str" /\ in_a.s # <<>>) =>
        ~sim_ab.raised /\ RatEq(sim_ab.sim, One)

\* C8, amended: the similarity of a raw username to itself is 1.0 when the
\* username has at least one variant.
C8_SelfSimilarityWithVariants ==
    ( /\ sim_ab.called /\ in_a = in_b /\ in_a.t = "str"
      /\ normalize_name_variants(in_a).vars # <<>> ) =>
        ~sim_ab.raised /\ RatEq(sim_ab.sim, One)

\* a name of several characters with digits was compared with itself
C8_Witness ==
    /\ sim_ab.called /\ in_a = in_b /\ in_a.t = "str"
    /\ Len(in_a.s) = MaxSimLen
    /\ Len(normalize_name_variants(in_a).vars) >= 3
    /\ RatEq(sim_ab.sim, One)

\* C9: max_variant_similarity(a, b) = max_variant_similarity(b, a) for all
\* raw usernames a and b.
C9_SimilaritySymmetric ==
    (sim_ab.called /\ sim_ba.called /\ ~sim_ab.raised /\ ~sim_ba.raised) =>
        RatEq(sim_ab.sim, sim_ba.sim)

\* C10: for an empty username and for a username that is not a string,
\* normalize_name_variants returns the empty list and does not raise, and the
\* similarity of such a name to any other name is 0.0.
C10_NormalizerNeverFails ==
    (sim_ab.called /\ (in_a.t # "str" \/ in_a.s = <<>>)) =>
        /\ normalize_name_variants(in_a) = [raised |-> FALSE, vars |-> <<>>]
        /\ ~sim_ab.raised /\ RatEq(sim_ab.sim, Zero)

(***************************************************************************)
(* Properties of the crawler (SpecCrawl)                                   *)
(***************************************************************************)

\* C17: whenever the crawler can be interrupted, the page in last.json is at
\* most one more than the highest page whose entries users.json holds, and
\* every page before the page in last.json from which this run or an earlier
\* one started is in users.json: a crawler started again starts at no page
\* beyond one whose entries were not saved.
C17_ResumeSkipsNoPage ==
    /\ last_json.exists =>
          /\ \A pg \in 1..(last_json.page - 1) : pg \in users_json
          /\ \/ last_json.page = 1
             \/ \E pg \in users_json : last_json.page <= pg + 1
    /\ cpc = "loop" => \A pg \in 1..(page - 1) : pg \in store

\* the crawler was killed between the two writes after a merge and started
\* again: users.json holds the page that last.json still names
C17_Witness ==
    /\ restarts >= 1 /\ cpc = "loop"
    /\ last_json.exists /\ last_json.page >= 2
    /\ last_json.page \in users_json
    /\ page = last_json.page

\* C20: the crawl is marked complete only on a well-formed response with zero
\* entries for the current page; a body that is no JSON or a JSON object
\* without entry list does not mark it complete; the page counter advances
\* only after the entries of the page are merged into the store.
C20_CompleteOnlyOnEmptyPage ==
    /\ done_resp \in {"none", "empty"}
    /\ (cpc = "loop" /\ page > start_page) => (page - 1) \in store

====
